---- MODULE Spec2Model ----
(***************************************************************************)
(* restpf: the callback scheduler (utils/helper_functions.py,              *)
(* parallel_groups_of_callbacks) and the request pipeline                  *)
(* (pipeline/protocol.py, PipelineBase).                                   *)
(*                                                                         *)
(* The scheduler is a pure function: it is modelled by operators that      *)
(* follow the code statement by statement, and the specification SpecSched *)
(* draws its input in Init and applies it in one action.  The pipeline is  *)
(* a state machine of its own, SpecPipe.                                   *)
(***************************************************************************)
EXTENDS Integers, Sequences, FiniteSets, TLC

VARIABLES
    \* ---- scheduler (parallel_groups_of_callbacks) ----
    callback_and_restricted_options, \* the argument: a sequence of [callback, options]
    set_order,          \* the iteration order the run's sets happen to have
    sched_pc,           \* "ready" (not called yet) | "returned" | "raised" | "off"
    sched_err,          \* the message of the exception raised, NoError when none
    parallel_groups,    \* the value returned: a sequence of sequences of callbacks
    loop_groups,        \* `groups` of the grouping loop, when it is run round by round
    loop_searched,      \* `searched` as the grouping loop reads and writes it
    \* ---- pipeline (PipelineBase) ----
    pc,                 \* position of run()
    rep_generator,      \* TRUE when a representation generator was passed
    name2selected,      \* collection name -> sequence of selected callbacks
    registered_options, \* callback -> the options it was registered with
    task,               \* callback -> "none" | "created" | "running" | "done" | "failed"
    phases,             \* the phases entered so far, in order
    input_state_is_valid,
    output_state_is_valid,
    merged_output_of_callbacks, \* "unset" | "set"
    output_state,       \* "unset" | "set"
    representation,     \* "unset" | "None" | "generated"
    run_error,          \* the exception run() ended with, NoError when none
    completed,          \* the callbacks that returned, in the order they returned
    tree_state,         \* collection name -> the values stored in its TreeState, by path
    \* ---- the merge (_merge_output_of_callbacks) ----
    output_of_callbacks, \* the argument: the TreeState, as path -> value stored
    merge_pc,           \* "ready" | "returned" | "off"
    merge_ret,          \* the value returned
    \* ---- the selection (ContextRule._select_callbacks) ----
    root_attr,          \* the schema tree: the set of the paths of its nodes
    root_state,         \* the state tree: the set of the paths whose state is present
    query,              \* the registry: the set of the paths that have a callback
    select_pc,          \* "ready" | "returned" | "off"
    select_ret          \* the value returned: a sequence of paths

sched_vars == <<callback_and_restricted_options, set_order, sched_pc, sched_err,
                parallel_groups, loop_groups, loop_searched>>
pipe_vars == <<pc, rep_generator, name2selected, registered_options, task, phases,
               input_state_is_valid, output_state_is_valid,
               merged_output_of_callbacks, output_state, representation, run_error,
               completed, tree_state>>
merge_vars == <<output_of_callbacks, merge_pc, merge_ret>>
select_vars == <<root_attr, root_state, query, select_pc, select_ret>>
vars == <<sched_vars, pipe_vars, merge_vars, select_vars>>

(***************************************************************************)
(* Bounds.                                                                 *)
(***************************************************************************)
\* the largest number of callbacks handed to the scheduler
NumCallbacks == 3
\* the largest number of callbacks the pipeline's selection returns
MaxSelected == 2
\* the largest number of callbacks of the inputs that only use a single
\* function as run_after
NumChained == 4

Callbacks == 1 .. (IF NumCallbacks >= NumChained THEN NumCallbacks ELSE NumChained)
\* Python's None where a callback is expected
None == 0

NoError == ""
ErrConflictBefore == "Conflict on before_all."
ErrAlreadyBefore == "Already set before_all"
ErrAlreadyAfter == "Already set after_all"
ErrCircle == "Detect circle."
ErrKeyError == "KeyError"

(***************************************************************************)
(* Sequence helpers.                                                       *)
(***************************************************************************)
RECURSIVE Reverse(_)
Reverse(s) == IF s = <<>> THEN <<>> ELSE Append(Reverse(Tail(s)), Head(s))

RECURSIVE Flatten(_)
Flatten(ss) == IF ss = <<>> THEN <<>> ELSE Head(ss) \o Flatten(Tail(ss))

Range(s) == { s[i] : i \in 1 .. Len(s) }

\* all orders in which a set of n elements can be iterated
SetOrders(n) ==
    { p \in [1 .. n -> 1 .. n] : \A i, j \in 1 .. n : i # j => p[i] # p[j] }

\* the elements of set S in the order `order` lists them: iterating a Python set
InOrder(S, order) == SelectSeq(order, LAMBDA x : x \in S)

(***************************************************************************)
(* The options of a callback (CallbackRegistrarOptions).  run_after is     *)
(* None (kind "none"), one function (kind "func", fs = {f}) or an iterable *)
(* of functions (kind "iter").                                             *)
(***************************************************************************)
RunAfterNone == [kind |-> "none", fs |-> {}]
RunAfterFunc(f) == [kind |-> "func", fs |-> {f}]
RunAfterIter(S) == [kind |-> "iter", fs |-> S]

\* Python truth value of options.get('run_after')
Truthy(run_after) ==
    \/ run_after.kind = "func"
    \/ run_after.kind = "iter" /\ run_after.fs # {}

\* the values of run_after drawn for n callbacks; a one-element iterable acts
\* as the single function does and is left out
RunAfterValues(n) ==
    {RunAfterNone}
        \cup { RunAfterFunc(f) : f \in 1 .. n }
        \cup { RunAfterIter(S) : S \in { T \in SUBSET (1 .. n) : Cardinality(T) # 1 } }

\* the options drawn for n callbacks: every run_after for a plain callback, and
\* for a before_all / after_all callback the three kinds of run_after
OptionsValues(n) ==
    { o \in [before_all : BOOLEAN, after_all : BOOLEAN, run_after : RunAfterValues(n)] :
        (o.before_all \/ o.after_all) => o.run_after.fs \subseteq {1} }

\* the inputs of n callbacks: callback i stands at position i
InputsOf(n) ==
    { [i \in 1 .. n |-> [callback |-> i, options |-> opts[i]]] :
        opts \in [1 .. n -> OptionsValues(n)] }

(***************************************************************************)
(* parallel_groups_of_callbacks: the one pass over the input.              *)
(***************************************************************************)
\* the state before the loop (lines 122-129)
PassInit ==
    [root |-> None, last |-> None,
     children |-> [c \in Callbacks |-> {}],
     parents |-> [c \in Callbacks |-> {}],
     searched |-> [c \in Callbacks |-> "ABSENT"],
     search_starts |-> <<>>,
     err |-> NoError]

\* lines 164-185: record the parents of a plain callback
CheckPrecedent(st, callback, run_after) ==
    LET ps == run_after.fs
        \* lines 167-169: one function
        oneParent ==
            [st EXCEPT !.children = [p \in Callbacks |->
                                        IF p \in ps THEN @[p] \cup {callback} ELSE @[p]],
                       !.parents[callback] = @ \cup ps]
        \* lines 171-176: an iterable; every parent the callback now has is linked
        manyParents ==
            [st EXCEPT !.parents[callback] = @ \cup ps,
                       !.children = [p \in Callbacks |->
                                        IF p \in st.parents[callback] \cup ps
                                        THEN @[p] \cup {callback} ELSE @[p]]]
        linked ==
            IF run_after.kind = "func" THEN oneParent
            ELSE IF run_after.kind = "iter" THEN manyParents
            ELSE [st EXCEPT !.search_starts = Append(@, callback)]
    IN [linked EXCEPT !.searched[callback] = "WHITE"]

\* lines 152-162: after_all
CheckLast(st, callback, options) ==
    IF options.before_all THEN [st EXCEPT !.err = "Conflict on after_all."]
    ELSE IF st.last = None THEN [st EXCEPT !.last = callback]
    ELSE [st EXCEPT !.err = ErrAlreadyAfter]

\* lines 138-150: before_all
CheckRootSilent(st, callback, options) ==
    IF options.after_all \/ Truthy(options.run_after)
    THEN [st EXCEPT !.err = ErrConflictBefore]
    ELSE [st EXCEPT !.root = callback, !.searched[callback] = "WHITE"]

CheckRoot(st, callback, options) ==
    IF options.after_all \/ Truthy(options.run_after)
    THEN [st EXCEPT !.err = ErrConflictBefore]
    ELSE IF st.root = None
    THEN [st EXCEPT !.root = callback, !.searched[callback] = "WHITE"]
    ELSE [st EXCEPT !.err = ErrAlreadyBefore]

\* lines 132-185: the body of the loop for one (callback, options)
ProcessOne(st, callback, options) ==
    IF options.before_all THEN CheckRoot(st, callback, options)
    ELSE IF options.after_all THEN CheckLast(st, callback, options)
    ELSE CheckPrecedent(st, callback, options.run_after)

\* lines 132-185: the loop, left at the first exception
RECURSIVE OnePass(_, _, _)
OnePass(st, input, i) ==
    IF i > Len(input) \/ st.err # NoError THEN st
    ELSE OnePass(ProcessOne(st, input[i].callback, input[i].options), input, i + 1)

\* lines 187-194: bind the callbacks without parent to the root
DealWithRoot(st) ==
    IF st.root = None THEN st
    ELSE LET starts == Range(st.search_starts)
         IN [st EXCEPT !.children[st.root] = @ \cup starts,
                       !.parents = [c \in Callbacks |->
                                       IF c \in starts THEN @[c] \cup {st.root} ELSE @[c]],
                       !.search_starts = <<st.root>>]

(***************************************************************************)
(* The depth-first search (lines 196-209).  d = [searched, group, err].    *)
(***************************************************************************)
RECURSIVE DFS(_, _, _, _)
RECURSIVE DFSChildren(_, _, _, _, _)

DFS(children, order, d, callback) ==
    IF d.searched[callback] = "ABSENT" THEN [d EXCEPT !.err = ErrKeyError]
    ELSE IF d.searched[callback] = "GRAY" THEN [d EXCEPT !.err = ErrCircle]
    ELSE IF d.searched[callback] # "WHITE" THEN d
    ELSE LET gray == [d EXCEPT !.searched[callback] = "GRAY"]
             below == DFSChildren(children, order, gray,
                                  InOrder(children[callback], order), 1)
         IN IF below.err # NoError THEN below
            ELSE [below EXCEPT !.searched[callback] = "BLACK",
                               !.group = Append(@, callback)]

DFSChildren(children, order, d, kids, i) ==
    IF i > Len(kids) \/ d.err # NoError THEN d
    ELSE DFSChildren(children, order, DFS(children, order, d, kids[i]), kids, i + 1)

\* lines 211-220: one search per start; t = [searched, groups, err]
RECURSIVE TopologySort(_, _, _, _, _)
TopologySort(children, order, t, starts, i) ==
    IF i > Len(starts) \/ t.err # NoError THEN t
    ELSE LET d == DFS(children, order,
                      [searched |-> t.searched, group |-> <<>>, err |-> NoError],
                      starts[i])
             next == [searched |-> d.searched,
                      groups |-> IF d.group # <<>>
                                 THEN Append(t.groups, Reverse(d.group))
                                 ELSE t.groups,
                      err |-> d.err]
         IN TopologySort(children, order, next, starts, i + 1)

(***************************************************************************)
(* The grouping loop (lines 222-248).                                      *)
(***************************************************************************)
\* line 233: the colour of a parent that keeps its child waiting
Blocks(colour) == colour = "BLACK"

\* lines 231-235: "ready", "wait" or "KeyError" (searched[parent] of a callback
\* that was never given a colour), the parents iterated in the set's order
RECURSIVE ReadyScan(_, _, _)
ReadyScan(searched, ps, i) ==
    IF i > Len(ps) THEN "ready"
    ELSE IF searched[ps[i]] = "ABSENT" THEN ErrKeyError
    ELSE IF Blocks(searched[ps[i]]) THEN "wait"
    ELSE ReadyScan(searched, ps, i + 1)

AlwaysReady(parents, searched, order, callback) == "ready"

Ready(parents, searched, order, callback) ==
    ReadyScan(searched, InOrder(parents[callback], order), 1)

\* lines 228-241: pop the ready callbacks off the front of one group
RECURSIVE TakeReady(_, _, _, _, _)
TakeReady(parents, searched, order, group, taken) ==
    IF group = <<>> THEN [taken |-> taken, rest |-> group, err |-> NoError]
    ELSE LET r == Ready(parents, searched, order, Head(group))
         IN IF r = "ready"
            THEN TakeReady(parents, searched, order, Tail(group),
                           Append(taken, Head(group)))
            ELSE [taken |-> taken, rest |-> group,
                  err |-> IF r = "wait" THEN NoError ELSE r]

\* lines 227-241: one scan of all groups; a = [parallel_group, groups, err]
RECURSIVE ScanGroups(_, _, _, _, _, _)
ScanGroups(parents, searched, order, groups, i, a) ==
    IF i > Len(groups) \/ a.err # NoError THEN a
    ELSE LET t == TakeReady(parents, searched, order, groups[i], <<>>)
         IN ScanGroups(parents, searched, order, groups, i + 1,
                       [parallel_group |-> a.parallel_group \o t.taken,
                        groups |-> Append(a.groups, t.rest),
                        err |-> t.err])

\* the colours left as they are
KeepColours(searched, parallel_group) == searched

\* lines 243-245: mark the callbacks of the round as completed
MarkCompleted(searched, parallel_group) ==
    [c \in Callbacks |-> IF c \in Range(parallel_group) THEN "WHITE" ELSE searched[c]]

\* lines 223-248: the rounds; g = [groups, searched, parallel_groups, err]
RECURSIVE GroupingLoop(_, _, _)
GroupingLoop(parents, order, g) ==
    IF g.groups = <<>> \/ g.err # NoError THEN g
    ELSE LET a == ScanGroups(parents, g.searched, order, g.groups, 1,
                             [parallel_group |-> <<>>, groups |-> <<>>, err |-> NoError])
         IN IF a.err # NoError THEN [g EXCEPT !.err = a.err]
            ELSE GroupingLoop(parents, order,
                    [groups |-> SelectSeq(a.groups, LAMBDA x : x # <<>>),
                     searched |-> MarkCompleted(g.searched, a.parallel_group),
                     parallel_groups |-> Append(g.parallel_groups, a.parallel_group),
                     err |-> NoError])

\* lines 250-251: the after_all callback closes the schedule
AppendLastIntoFinalGroup(groups, last) ==
    IF last = None THEN groups
    ELSE IF groups = <<>> THEN <<<<last>>>>
    ELSE [groups EXCEPT ![Len(groups)] = Append(@, last)]

AppendLast(groups, last) ==
    IF last = None THEN groups ELSE Append(groups, <<last>>)

\* lines 121-253: the whole function; [err, groups]
parallel_groups_of_callbacks(input, order) ==
    LET st == OnePass(PassInit, input, 1)
    IN IF st.err # NoError THEN [err |-> st.err, groups |-> <<>>]
       ELSE LET b == DealWithRoot(st)
                t == TopologySort(b.children, order,
                                  [searched |-> b.searched, groups |-> <<>>,
                                   err |-> NoError],
                                  b.search_starts, 1)
            IN IF t.err # NoError THEN [err |-> t.err, groups |-> <<>>]
               ELSE LET g == GroupingLoop(b.parents, order,
                                          [groups |-> t.groups, searched |-> t.searched,
                                           parallel_groups |-> <<>>, err |-> NoError])
                    IN IF g.err # NoError THEN [err |-> g.err, groups |-> <<>>]
                       ELSE [err |-> NoError,
                             groups |-> AppendLast(g.parallel_groups, b.last)]

(***************************************************************************)
(* SpecSched: the scheduler called once on an input drawn in Init.         *)
(***************************************************************************)
PipeOff ==
    /\ pc = "off"
    /\ rep_generator = FALSE
    /\ name2selected = <<>>
    /\ registered_options = <<>>
    /\ task = <<>>
    /\ phases = <<>>
    /\ input_state_is_valid = FALSE
    /\ output_state_is_valid = FALSE
    /\ merged_output_of_callbacks = "unset"
    /\ output_state = "unset"
    /\ representation = "unset"
    /\ run_error = NoError
    /\ completed = <<>>
    /\ tree_state = <<>>

MergeOff ==
    /\ output_of_callbacks = <<>>
    /\ merge_pc = "off"
    /\ merge_ret = <<>>

SelectOff ==
    /\ root_attr = {}
    /\ root_state = {}
    /\ query = {}
    /\ select_pc = "off"
    /\ select_ret = <<>>

InitSched ==
    /\ \E n \in 0 .. NumCallbacks :
           callback_and_restricted_options \in InputsOf(n)
    /\ set_order = <<>>
    /\ sched_pc = "ready"
    /\ sched_err = NoError
    /\ parallel_groups = <<>>
    /\ loop_groups = <<>>
    /\ loop_searched = <<>>
    /\ PipeOff
    /\ MergeOff
    /\ SelectOff

\* the call: the sets of the run iterate in some order
Call ==
    /\ sched_pc = "ready"
    /\ \E order \in SetOrders(Len(callback_and_restricted_options)) :
           LET r == parallel_groups_of_callbacks(callback_and_restricted_options, order)
           IN /\ set_order' = order
              /\ sched_err' = r.err
              /\ parallel_groups' = r.groups
              /\ sched_pc' = IF r.err = NoError THEN "returned" ELSE "raised"
    /\ UNCHANGED <<callback_and_restricted_options, loop_groups, loop_searched,
                   pipe_vars, merge_vars, select_vars>>

NextSched == Call

SpecSched == InitSched /\ [][NextSched]_vars

\* the inputs of n callbacks, none of them before_all or after_all, each without
\* run_after or with one function as run_after
ChainInputsOf(n) ==
    { [i \in 1 .. n |->
          [callback |-> i,
           options |-> [before_all |-> FALSE, after_all |-> FALSE,
                        run_after |-> ra[i]]]] :
        ra \in [1 .. n -> {RunAfterNone} \cup { RunAfterFunc(f) : f \in 1 .. n }] }

InitSchedChains ==
    /\ \E n \in 0 .. NumChained :
           callback_and_restricted_options \in ChainInputsOf(n)
    /\ set_order = <<>>
    /\ sched_pc = "ready"
    /\ sched_err = NoError
    /\ parallel_groups = <<>>
    /\ loop_groups = <<>>
    /\ loop_searched = <<>>
    /\ PipeOff
    /\ MergeOff
    /\ SelectOff

\* SpecSchedChains: the scheduler called once on longer inputs of fewer kinds
SpecSchedChains == InitSchedChains /\ [][NextSched]_vars

(***************************************************************************)
(* SpecRounds: the same function followed step by step: the pass over the  *)
(* input with the topology sort, then one step per round of the grouping   *)
(* loop, then the return.                                                  *)
(***************************************************************************)
InitRounds ==
    /\ \/ \E n \in 0 .. NumCallbacks :
              callback_and_restricted_options \in InputsOf(n)
       \/ \E n \in 0 .. NumChained :
              callback_and_restricted_options \in ChainInputsOf(n)
    /\ set_order = <<>>
    /\ sched_pc = "ready"
    /\ sched_err = NoError
    /\ parallel_groups = <<>>
    /\ loop_groups = <<>>
    /\ loop_searched = <<>>
    /\ PipeOff
    /\ MergeOff
    /\ SelectOff

\* lines 121-220: the pass over the input, the root, the topology sort
Sort ==
    /\ sched_pc = "ready"
    /\ \E order \in SetOrders(Len(callback_and_restricted_options)) :
           LET st == OnePass(PassInit, callback_and_restricted_options, 1)
               b == DealWithRoot(st)
               t == TopologySort(b.children, order,
                                 [searched |-> b.searched, groups |-> <<>>,
                                  err |-> NoError],
                                 b.search_starts, 1)
               err == IF st.err # NoError THEN st.err ELSE t.err
           IN /\ set_order' = order
              /\ sched_err' = err
              /\ IF err = NoError
                 THEN /\ sched_pc' = "grouping"
                      /\ loop_groups' = t.groups
                      /\ loop_searched' = t.searched
                 ELSE /\ sched_pc' = "raised"
                      /\ UNCHANGED <<loop_groups, loop_searched>>
    /\ UNCHANGED <<callback_and_restricted_options, parallel_groups,
                   pipe_vars, merge_vars, select_vars>>

\* `parents` and `last` as the pass over the input left them
LoopParents == DealWithRoot(OnePass(PassInit, callback_and_restricted_options, 1)).parents
LoopLast == OnePass(PassInit, callback_and_restricted_options, 1).last

\* lines 223-248: one round of `while groups`; the loop is followed for one
\* round more than there are callbacks
Round ==
    /\ sched_pc = "grouping"
    /\ loop_groups # <<>>
    /\ Len(parallel_groups) <= Len(callback_and_restricted_options)
    /\ LET a == ScanGroups(LoopParents, loop_searched, set_order, loop_groups, 1,
                           [parallel_group |-> <<>>, groups |-> <<>>, err |-> NoError])
       IN IF a.err # NoError
          THEN /\ sched_pc' = "raised"
               /\ sched_err' = a.err
               /\ UNCHANGED <<parallel_groups, loop_groups, loop_searched>>
          ELSE /\ loop_groups' = SelectSeq(a.groups, LAMBDA x : x # <<>>)
               /\ loop_searched' = MarkCompleted(loop_searched, a.parallel_group)
               /\ parallel_groups' = Append(parallel_groups, a.parallel_group)
               /\ UNCHANGED <<sched_pc, sched_err>>
    /\ UNCHANGED <<callback_and_restricted_options, set_order,
                   pipe_vars, merge_vars, select_vars>>

\* lines 250-253: `groups` is empty; the after_all callback, then the return
Return ==
    /\ sched_pc = "grouping"
    /\ loop_groups = <<>>
    /\ parallel_groups' = AppendLast(parallel_groups, LoopLast)
    /\ sched_pc' = "returned"
    /\ UNCHANGED <<callback_and_restricted_options, set_order, sched_err,
                   loop_groups, loop_searched, pipe_vars, merge_vars, select_vars>>

NextRounds ==
    \/ Sort
    \/ Round
    \/ Return

SpecRounds == InitRounds /\ [][NextRounds]_vars

\* the loop is one sequential run: once entered it keeps taking its next step
FairSpecRounds == SpecRounds /\ WF_vars(Round) /\ WF_vars(Return)

(***************************************************************************)
(* PipelineBase (pipeline/protocol.py).  The registry holds, for each      *)
(* callback of the request, the options it was registered with; the        *)
(* pipeline's collaborators (state builder, validators, the callbacks      *)
(* themselves) answer nondeterministically.                                *)
(***************************************************************************)
\* _COLLECTION_NAMES (line 21)
COLLECTION_NAMES == <<"attributes", "relationships", "resource_id">>

ErrInputNotValid == "TODO: input state not valid"
ErrOutputNotValid == "TODO: output state not valid"
ErrAttributeError == "AttributeError"
ErrCallbackRaised == "callback raised"

\* the phases of run(), in the order the code awaits them
PhaseOrder ==
    <<"BuildInput", "ValidateInput", "SelectCallbacks", "Invoke", "Merge",
      "BuildOutput", "ValidateOutput", "Representation">>

\* the options a callback of the request may be registered with
PipeOptionsValues(k) ==
    { o \in [before_all : BOOLEAN, after_all : BOOLEAN,
             run_after : {RunAfterNone} \cup { RunAfterFunc(f) : f \in 1 .. k }] :
        /\ ~(o.before_all /\ o.after_all)
        /\ (o.before_all \/ o.after_all) => o.run_after = RunAfterNone }

SchedOff ==
    /\ callback_and_restricted_options = <<>>
    /\ set_order = <<>>
    /\ sched_pc = "off"
    /\ sched_err = NoError
    /\ parallel_groups = <<>>
    /\ loop_groups = <<>>
    /\ loop_searched = <<>>

InitPipe ==
    /\ SchedOff
    /\ MergeOff
    /\ SelectOff
    /\ pc = "new"
    /\ rep_generator \in BOOLEAN
    /\ \E k \in 0 .. MaxSelected :
          /\ registered_options \in [1 .. k -> PipeOptionsValues(k)]
          /\ task = [c \in 1 .. k |-> "none"]
    /\ name2selected = [name \in Range(COLLECTION_NAMES) |-> <<>>]
    /\ phases = <<>>
    /\ input_state_is_valid = FALSE
    /\ output_state_is_valid = FALSE
    /\ merged_output_of_callbacks = "unset"
    /\ output_state = "unset"
    /\ representation = "unset"
    /\ run_error = NoError
    /\ completed = <<>>
    /\ tree_state = [name \in Range(COLLECTION_NAMES) |-> <<>>]

\* the callbacks in the order name2selected.items() and the selections list them:
\* the order in which gather() creates, and the event loop first runs, their tasks
TaskOrder ==
    Flatten([i \in 1 .. Len(COLLECTION_NAMES) |-> name2selected[COLLECTION_NAMES[i]]])

Started(c) == task[c] \in {"running", "done", "failed"}

\* __init__ (lines 264-279): bind_context_rule is called on both collaborators
Construct ==
    /\ pc = "new"
    /\ IF rep_generator
       THEN pc' = "constructed" /\ run_error' = run_error
       ELSE pc' = "failed" /\ run_error' = ErrAttributeError
    /\ UNCHANGED <<sched_vars, merge_vars, select_vars, completed, tree_state, rep_generator, name2selected, registered_options, task,
                   phases, input_state_is_valid, output_state_is_valid,
                   merged_output_of_callbacks, output_state, representation>>

\* _build_input_state, lines 282-285
BuildInput ==
    /\ pc = "constructed"
    /\ pc' = "validate_input"
    /\ phases' = Append(phases, "BuildInput")
    /\ UNCHANGED <<sched_vars, merge_vars, select_vars, completed, tree_state, rep_generator, name2selected, registered_options, task,
                   input_state_is_valid, output_state_is_valid,
                   merged_output_of_callbacks, output_state, representation, run_error>>

\* _build_input_state, lines 287-292, without the raise
ValidateInputNoRaise ==
    /\ pc = "validate_input"
    /\ phases' = Append(phases, "ValidateInput")
    /\ \E valid \in BOOLEAN :
          /\ input_state_is_valid' = valid
          /\ pc' = "select"
          /\ run_error' = run_error
    /\ UNCHANGED <<sched_vars, merge_vars, select_vars, completed, tree_state, rep_generator, name2selected, registered_options, task,
                   output_state_is_valid, merged_output_of_callbacks, output_state,
                   representation>>

\* _build_input_state, lines 287-292
ValidateInput ==
    /\ pc = "validate_input"
    /\ phases' = Append(phases, "ValidateInput")
    /\ \E valid \in BOOLEAN :
          /\ input_state_is_valid' = valid
          /\ IF valid
             THEN pc' = "select" /\ run_error' = run_error
             ELSE pc' = "failed" /\ run_error' = ErrInputNotValid
    /\ UNCHANGED <<sched_vars, merge_vars, select_vars, completed, tree_state, rep_generator, name2selected, registered_options, task,
                   output_state_is_valid, merged_output_of_callbacks, output_state,
                   representation>>

\* _invoke_callbacks, lines 295-298, and ContextRule.select_callbacks (133-163):
\* the selected callbacks of each collection; resource_id selects none
SelectCallbacks ==
    /\ pc = "select"
    /\ \E a \in 0 .. Len(registered_options) :
          name2selected' =
              [attributes |-> [i \in 1 .. a |-> i],
               relationships |-> [i \in 1 .. (Len(registered_options) - a) |-> a + i],
               resource_id |-> <<>>]
    /\ phases' = Append(phases, "SelectCallbacks")
    /\ pc' = "create"
    /\ UNCHANGED <<sched_vars, merge_vars, select_vars, completed, tree_state, rep_generator, registered_options, task,
                   input_state_is_valid, output_state_is_valid,
                   merged_output_of_callbacks, output_state, representation, run_error>>

\* _invoke_callbacks, lines 300-330: one coroutine per selected callback, all
\* handed to gather() at once; the options of the callbacks are not read
CreateCoroutines ==
    /\ pc = "create"
    /\ task' = [c \in DOMAIN task |-> IF c \in Range(TaskOrder) THEN "created" ELSE task[c]]
    /\ phases' = Append(phases, "Invoke")
    /\ pc' = "gather"
    /\ UNCHANGED <<sched_vars, merge_vars, select_vars, completed, tree_state, rep_generator, name2selected, registered_options,
                   input_state_is_valid, output_state_is_valid,
                   merged_output_of_callbacks, output_state, representation, run_error>>

\* the event loop runs the first step of the next task: the callback returns,
\* raises, or suspends at an await of its own
StartTask ==
    /\ pc = "gather"
    /\ \E i \in 1 .. Len(TaskOrder) :
          /\ task[TaskOrder[i]] = "created"
          /\ \A j \in 1 .. (i - 1) : task[TaskOrder[j]] # "created"
          /\ \E outcome \in {"running", "done", "failed"} :
                /\ task' = [task EXCEPT ![TaskOrder[i]] = outcome]
                /\ completed' = IF outcome = "done"
                                 THEN Append(completed, TaskOrder[i])
                                 ELSE completed
    /\ UNCHANGED <<sched_vars, merge_vars, select_vars, tree_state, pc, rep_generator, name2selected, registered_options,
                   phases, input_state_is_valid, output_state_is_valid,
                   merged_output_of_callbacks, output_state, representation, run_error>>

\* a suspended callback is resumed, after every task had its first step; a task
\* is not cancelled when run() has failed on another callback
ResumeTask ==
    /\ pc \in {"gather", "failed"}
    /\ \A c \in DOMAIN task : task[c] # "created"
    /\ \E c \in DOMAIN task :
          /\ task[c] = "running"
          /\ \E outcome \in {"done", "failed"} :
                /\ task' = [task EXCEPT ![c] = outcome]
                /\ completed' = IF outcome = "done" THEN Append(completed, c)
                                 ELSE completed
    /\ UNCHANGED <<sched_vars, merge_vars, select_vars, tree_state, pc, rep_generator, name2selected, registered_options,
                   phases, input_state_is_valid, output_state_is_valid,
                   merged_output_of_callbacks, output_state, representation, run_error>>

\* line 337: await joined_callbacks raises the exception of a callback
GatherRaises ==
    /\ pc = "gather"
    /\ \A c \in DOMAIN task : task[c] # "created"
    /\ \E c \in DOMAIN task : task[c] = "failed"
    /\ pc' = "failed"
    /\ run_error' = ErrCallbackRaised
    /\ UNCHANGED <<sched_vars, merge_vars, select_vars, completed, tree_state, rep_generator, name2selected, registered_options, task,
                   phases, input_state_is_valid, output_state_is_valid,
                   merged_output_of_callbacks, output_state, representation>>

\* the value callback c returns: every callback returns a value of its own
ResultOf(c) == [returned_by |-> c]

\* attr.bh_path of the node callback c was selected at (line 319): the callbacks
\* of a request sit at different nodes
PathOf(c) == <<c>>

\* the results of a collection in the order its callbacks returned
GatherResultsAsCompleted(name) ==
    LET OfCollection(c) == c \in Range(name2selected[name])
        order == SelectSeq(completed, OfCollection)
    IN [i \in 1 .. Len(order) |-> ResultOf(order[i])]

\* lines 325-337: gather() returns the results in the order of its awaitables,
\* which is the order of the selection
GatherResults(name) ==
    [i \in 1 .. Len(name2selected[name]) |-> ResultOf(name2selected[name][i])]

\* lines 339-341: tree_state.touch(path).value = ret for the pairs of zip(paths, rets);
\* a later pair overwrites an earlier one of the same path
Touch(paths, rets) ==
    LET n == IF Len(paths) <= Len(rets) THEN Len(paths) ELSE Len(rets)
        Last(p) == CHOOSE i \in 1 .. n :
                       /\ paths[i] = p
                       /\ \A j \in (i + 1) .. n : paths[j] # p
    IN [p \in { paths[i] : i \in 1 .. n } |-> rets[Last(p)]]

\* merging although a callback raised
MergeDespiteFailure ==
    /\ pc = "gather"
    /\ \A c \in DOMAIN task : task[c] \in {"done", "failed"}
    /\ tree_state' = [name \in Range(COLLECTION_NAMES) |-> <<>>]
    /\ merged_output_of_callbacks' = "set"
    /\ phases' = Append(phases, "Merge")
    /\ pc' = "build_output"
    /\ UNCHANGED <<sched_vars, merge_vars, select_vars, completed,
                   rep_generator, name2selected, registered_options, task,
                   input_state_is_valid, output_state_is_valid, output_state,
                   representation, run_error>>

\* lines 332-346: every callback has returned; the results are stored in the
\* TreeState of their collection and merged
Merge ==
    /\ pc = "gather"
    /\ \A c \in DOMAIN task : task[c] = "done"
    /\ tree_state' =
           [name \in Range(COLLECTION_NAMES) |->
               Touch([i \in 1 .. Len(name2selected[name]) |->
                          PathOf(name2selected[name][i])],
                     GatherResults(name))]
    /\ merged_output_of_callbacks' = "set"
    /\ phases' = Append(phases, "Merge")
    /\ pc' = "build_output"
    /\ UNCHANGED <<sched_vars, merge_vars, select_vars, completed, rep_generator, name2selected, registered_options, task,
                   input_state_is_valid, output_state_is_valid, output_state,
                   representation, run_error>>

\* _build_output_state, lines 349-352
BuildOutput ==
    /\ pc = "build_output"
    /\ output_state' = "set"
    /\ phases' = Append(phases, "BuildOutput")
    /\ pc' = "validate_output"
    /\ UNCHANGED <<sched_vars, merge_vars, select_vars, completed, tree_state, rep_generator, name2selected, registered_options, task,
                   input_state_is_valid, output_state_is_valid,
                   merged_output_of_callbacks, representation, run_error>>

\* _build_output_state, lines 353-358, without the raise
ValidateOutputNoRaise ==
    /\ pc = "validate_output"
    /\ phases' = Append(phases, "ValidateOutput")
    /\ \E valid \in BOOLEAN :
          /\ output_state_is_valid' = valid
          /\ pc' = "representation"
          /\ run_error' = run_error
    /\ UNCHANGED <<sched_vars, merge_vars, select_vars, completed, tree_state, rep_generator, name2selected, registered_options, task,
                   input_state_is_valid, merged_output_of_callbacks, output_state,
                   representation>>

\* _build_output_state, lines 353-358
ValidateOutput ==
    /\ pc = "validate_output"
    /\ phases' = Append(phases, "ValidateOutput")
    /\ \E valid \in BOOLEAN :
          /\ output_state_is_valid' = valid
          /\ IF valid
             THEN pc' = "representation" /\ run_error' = run_error
             ELSE pc' = "failed" /\ run_error' = ErrOutputNotValid
    /\ UNCHANGED <<sched_vars, merge_vars, select_vars, completed, tree_state, rep_generator, name2selected, registered_options, task,
                   input_state_is_valid, merged_output_of_callbacks, output_state,
                   representation>>

\* _generate_representation, lines 360-366
GenerateRepresentation ==
    /\ pc = "representation"
    /\ representation' = IF rep_generator THEN "generated" ELSE "None"
    /\ phases' = Append(phases, "Representation")
    /\ pc' = "done"
    /\ UNCHANGED <<sched_vars, merge_vars, select_vars, completed, tree_state, rep_generator, name2selected, registered_options, task,
                   input_state_is_valid, output_state_is_valid,
                   merged_output_of_callbacks, output_state, run_error>>

NextPipe ==
    \/ Construct
    \/ BuildInput
    \/ ValidateInput
    \/ SelectCallbacks
    \/ CreateCoroutines
    \/ StartTask
    \/ ResumeTask
    \/ GatherRaises
    \/ Merge
    \/ BuildOutput
    \/ ValidateOutput
    \/ GenerateRepresentation

SpecPipe == InitPipe /\ [][NextPipe]_vars

(***************************************************************************)
(* ContextRule._select_callbacks (pipeline/protocol.py, lines 107-130).    *)
(* A node of the schema tree is named by its path, the sequence of child   *)
(* names that leads to it from the root.  root_attr is the set of the      *)
(* paths of the schema, root_state the set of the paths whose state is     *)
(* present (the empty set: root_state is None), and query the set of the   *)
(* paths a callback is registered at for the method.                       *)
(***************************************************************************)
\* the child names, in the order bh_named_children.items() yields them
CHILD_NAMES == <<"a", "b">>
\* the largest number of nodes of a schema tree
MaxNodes == 4

Front(path) == SubSeq(path, 1, Len(path) - 1)

\* the schema trees of k or fewer nodes
RECURSIVE Schemas(_)
Schemas(k) ==
    IF k <= 1 THEN {{<<>>}}
    ELSE LET smaller == Schemas(k - 1)
         IN smaller \cup
            UNION { { T \cup {Append(path, name)} :
                        path \in T, name \in Range(CHILD_NAMES) } : T \in smaller }

\* the state trees of a schema: getattr(state, name) of an absent state is not
\* read (line 125), so the state of a child of an absent state is absent
StatesOf(schema) ==
    { P \in SUBSET schema : \A path \in P : path # <<>> => Front(path) \in P }

\* lines 124-128: the children of a node, in declaration order, with their states
ChildEntries(attr, state, attrs, states) ==
    LET Declared(name) == Append(attr, name) \in attrs
        names == SelectSeq(CHILD_NAMES, Declared)
    IN [i \in 1 .. Len(names) |->
           [attr |-> Append(attr, names[i]),
            state |-> IF state THEN Append(attr, names[i]) \in states ELSE FALSE]]

\* the children pushed in front of the queue
PushFront(queue, entries) == entries \o queue

\* lines 126-128: queue.append
Enqueue(queue, entries) == queue \o entries

\* line 119: `callback and (state or root_state is None)`; state is TRUE when
\* the node's state is present
Eligible(attr, state, states, registry) ==
    attr \in registry /\ (state \/ <<>> \notin states)

\* lines 115-128: the loop over the queue
RECURSIVE SelectLoop(_, _, _, _, _)
SelectLoop(queue, ret, attrs, states, registry) ==
    IF queue = <<>> THEN ret
    ELSE LET attr == Head(queue).attr
             state == Head(queue).state
             ret1 == IF Eligible(attr, state, states, registry)
                     THEN Append(ret, [attr |-> attr, state |-> state])
                     ELSE ret
         IN SelectLoop(Enqueue(Tail(queue), ChildEntries(attr, state, attrs, states)),
                       ret1, attrs, states, registry)

\* lines 107-130
_select_callbacks(registry, attrs, states) ==
    SelectLoop(<<[attr |-> <<>>, state |-> <<>> \in states]>>, <<>>,
               attrs, states, registry)

InitSelect ==
    /\ SchedOff
    /\ PipeOff
    /\ MergeOff
    /\ root_attr \in Schemas(MaxNodes)
    /\ root_state \in StatesOf(root_attr)
    /\ query \in SUBSET root_attr
    /\ select_pc = "ready"
    /\ select_ret = <<>>

SelectCall ==
    /\ select_pc = "ready"
    /\ select_ret' = _select_callbacks(query, root_attr, root_state)
    /\ select_pc' = "returned"
    /\ UNCHANGED <<sched_vars, pipe_vars, merge_vars, root_attr, root_state, query>>

NextSelect == SelectCall

SpecSelect == InitSelect /\ [][NextSelect]_vars

(***************************************************************************)
(* _merge_output_of_callbacks (pipeline/protocol.py, lines 219-241).       *)
(* A Python value is a record tagged with its type.  The TreeState is kept *)
(* as the function from the touched paths to the values stored at them:    *)
(* its nodes are the prefixes of those paths, a node that was not touched  *)
(* itself holds None, and a TreeState without children is false.           *)
(***************************************************************************)
PyNone == [type |-> "NoneType"]
PyInt(n) == [type |-> "int", value |-> n]
PyDict(items) == [type |-> "dict", items |-> items]

\* the truth value Python gives a value
PyTruth(v) ==
    CASE v.type = "NoneType" -> FALSE
      [] v.type = "int" -> v.value # 0
      [] v.type = "dict" -> DOMAIN v.items # {}

\* isinstance(v, dict)
IsDict(v) == v.type = "dict"

\* dict.get(name)
PyGet(d, name) == IF name \in DOMAIN d.items THEN d.items[name] ELSE PyNone

\* the largest number of results stored in a TreeState
MaxResults == 3

\* the values a callback returns
ResultValues ==
    { PyNone, PyInt(0), PyInt(1), PyDict(<<>>),
      PyDict([name \in {"b"} |-> PyInt(2)]),
      PyDict([name \in {"a"} |-> PyDict([name2 \in {"b"} |-> PyInt(1)])]) }

\* the paths results are stored at
ResultPaths ==
    {<<>>} \cup { <<name>> : name \in Range(CHILD_NAMES) }
           \cup { <<name, name2>> : name \in Range(CHILD_NAMES),
                                     name2 \in Range(CHILD_NAMES) }

\* the TreeStates that hold k or fewer results
TreeStates(k) ==
    UNION { [P -> ResultValues] :
              P \in { Q \in SUBSET ResultPaths : Cardinality(Q) <= k } }

\* TreeState.children of the node at path: the names of its children
ChildrenOf(tree, path) ==
    { q[Len(path) + 1] :
        q \in { t \in DOMAIN tree :
                  Len(t) > Len(path) /\ SubSeq(t, 1, Len(path)) = path } }

\* Gap.value of the node at path: None unless a value was stored
ValueOf(tree, path) == IF path \in DOMAIN tree THEN tree[path] ELSE PyNone

\* helper (lines 221-235), called for the node at path
RECURSIVE helper(_, _, _, _)
helper(ret, child_value, tree, path) ==
    LET children == ChildrenOf(tree, path)
    IN IF children = {}
       THEN IF PyTruth(child_value) THEN child_value ELSE ret
       ELSE LET ret1 == IF PyTruth(ret) THEN ret ELSE child_value
                ret2 == IF IsDict(ret1) THEN ret1 ELSE PyDict(<<>>)
            IN PyDict([name \in (DOMAIN ret2.items) \cup children |->
                          IF name \in children
                          THEN helper(PyGet(ret2, name),
                                      ValueOf(tree, Append(path, name)),
                                      tree, Append(path, name))
                          ELSE ret2.items[name]])

\* lines 237-241
_merge_output_of_callbacks(tree) ==
    LET ret == IF <<>> \in DOMAIN tree THEN tree[<<>>] ELSE PyDict(<<>>)
    IN helper(ret, PyNone, tree, <<>>)

InitMerge ==
    /\ SchedOff
    /\ PipeOff
    /\ SelectOff
    /\ output_of_callbacks \in TreeStates(MaxResults)
    /\ merge_pc = "ready"
    /\ merge_ret = PyNone

MergeCall ==
    /\ merge_pc = "ready"
    /\ merge_ret' = _merge_output_of_callbacks(output_of_callbacks)
    /\ merge_pc' = "returned"
    /\ UNCHANGED <<sched_vars, pipe_vars, select_vars, output_of_callbacks>>

NextMerge == MergeCall

SpecMerge == InitMerge /\ [][NextMerge]_vars

(***************************************************************************)
(* The scheduler's contract, read off the returned schedule.               *)
(***************************************************************************)
Input == callback_and_restricted_options
InputCallbacks == 1 .. Len(Input)
OptionsOf(c) == Input[c].options
\* the parents a callback declares with run_after
DeclaredParents(c) == OptionsOf(c).run_after.fs
\* neither before_all nor after_all
Plain(c) == ~OptionsOf(c).before_all /\ ~OptionsOf(c).after_all
\* the indices of the groups a callback stands in, counted per occurrence
Places(c) ==
    { ik \in (1 .. Len(parallel_groups)) \X (1 .. NumCallbacks + 1) :
        /\ ik[2] <= Len(parallel_groups[ik[1]])
        /\ parallel_groups[ik[1]][ik[2]] = c }
InGroup(c, i) == c \in Range(parallel_groups[i])
Called == sched_pc \in {"returned", "raised"}
Returned == sched_pc = "returned"
ConflictErrors == {ErrConflictBefore, ErrAlreadyBefore, ErrAlreadyAfter}

\* the callbacks reachable from c along k or fewer run_after edges (parent to child)
RECURSIVE Descendants(_, _)
Descendants(S, k) ==
    IF k = 0 THEN {}
    ELSE LET kids == { c \in InputCallbacks : Plain(c) /\ DeclaredParents(c) \cap S # {} }
         IN kids \cup Descendants(kids, k - 1)
\* a cycle among the run_after edges of plain callbacks
HasCycle == \E c \in InputCallbacks : Plain(c) /\ c \in Descendants({c}, NumCallbacks)

\* C1: whenever a schedule is returned, every placed callback (its run_after being
\* read, i.e. the callback being neither before_all nor after_all) has each declared
\* parent placed in a group of strictly smaller index.
C1_ParentsInEarlierGroups ==
    Returned =>
        \A i \in 1 .. Len(parallel_groups) :
            \A c \in Range(parallel_groups[i]) :
                Plain(c) =>
                    \A p \in DeclaredParents(c) :
                        \E j \in 1 .. (i - 1) : InGroup(p, j)

\* C2: whenever a schedule is returned, each callback of the input stands at
\* exactly one place of the schedule.
C2_EachCallbackExactlyOnce ==
    Returned => \A c \in InputCallbacks : Cardinality(Places(c)) = 1

\* C3: a cycle among the run_after edges makes the call raise 'Detect circle.'
\* (a configuration conflict of the same input may be raised first).
C3_CycleAlwaysDetected ==
    (Called /\ HasCycle) =>
        /\ sched_pc = "raised"
        /\ sched_err \in {ErrCircle} \cup ConflictErrors

\* C4: with a before_all callback, the returned schedule opens with the group
\* holding that callback alone, and every other callback that declares no parent
\* stands in a later group.
C4_RootAloneInFirstGroup ==
    Returned =>
        \A r \in InputCallbacks :
            OptionsOf(r).before_all =>
                /\ parallel_groups # <<>>
                /\ parallel_groups[1] = <<r>>
                /\ \A c \in InputCallbacks \ {r} :
                       DeclaredParents(c) = {} =>
                           \E i \in 2 .. Len(parallel_groups) : InGroup(c, i)

\* C5: with an after_all callback, the returned schedule ends with the group
\* holding that callback alone, and the callback stands in no other group.
C5_LastAloneInFinalGroup ==
    Returned =>
        \A l \in InputCallbacks :
            OptionsOf(l).after_all =>
                /\ parallel_groups # <<>>
                /\ parallel_groups[Len(parallel_groups)] = <<l>>
                /\ \A i \in 1 .. (Len(parallel_groups) - 1) : ~InGroup(l, i)

\* C5 witness: a schedule of other callbacks closed by the after_all callback
C5_Witness ==
    /\ Returned
    /\ Len(parallel_groups) >= 2
    /\ \E l \in InputCallbacks :
           /\ OptionsOf(l).after_all
           /\ parallel_groups[Len(parallel_groups)] = <<l>>

\* the code's own test of a before_all callback that carries something else
MixesBeforeAll(c) ==
    OptionsOf(c).before_all /\ (OptionsOf(c).after_all \/ Truthy(OptionsOf(c).run_after))

\* C6: two before_all declarations, or two after_all declarations, always make the
\* call raise a configuration conflict; the message is 'Already set before_all' or
\* 'Already set after_all' unless a before_all callback carries a second option.
C6_TwoDesigneesConflict ==
    (/\ Called
     /\ \/ Cardinality({ c \in InputCallbacks : OptionsOf(c).before_all }) >= 2
        \/ Cardinality({ c \in InputCallbacks : OptionsOf(c).after_all }) >= 2) =>
        /\ sched_pc = "raised"
        /\ parallel_groups = <<>>
        /\ sched_err \in ConflictErrors
        /\ (\A c \in InputCallbacks : ~MixesBeforeAll(c)) =>
               sched_err \in {ErrAlreadyBefore, ErrAlreadyAfter}

\* C6 witness: the two before_all declarations stand first and last, apart
C6_Witness ==
    /\ sched_pc = "raised"
    /\ sched_err = ErrAlreadyBefore
    /\ Len(Input) = NumCallbacks
    /\ OptionsOf(1).before_all
    /\ OptionsOf(NumCallbacks).before_all
    /\ \A c \in InputCallbacks \ {1, NumCallbacks} : Plain(c)

\* C7: a callback that combines before_all or after_all with a run_after parent,
\* or before_all with after_all, always makes the call raise a configuration
\* conflict.
C7_MixedOptionsConflict ==
    (/\ Called
     /\ \E c \in InputCallbacks :
           \/ (OptionsOf(c).before_all \/ OptionsOf(c).after_all)
                  /\ Truthy(OptionsOf(c).run_after)
           \/ OptionsOf(c).before_all /\ OptionsOf(c).after_all) =>
        /\ sched_pc = "raised"
        /\ sched_err \in ConflictErrors

(***************************************************************************)
(* The pipeline's contract.                                                *)
(***************************************************************************)
\* what the scheduler is given for one collection: its selected callbacks, each
\* with the options it was registered with
ScheduleInput(name) ==
    [i \in 1 .. Len(name2selected[name]) |->
        [callback |-> name2selected[name][i],
         options |-> registered_options[name2selected[name][i]]]]

\* C8: for each collection and each schedule the scheduler returns for it, a
\* callback of a later group has not started unless every callback of every
\* earlier group has completed successfully.
C8_GroupsRunInSequence ==
    \A n \in 1 .. Len(COLLECTION_NAMES) :
        \A order \in SetOrders(MaxSelected) :
            LET r == parallel_groups_of_callbacks(ScheduleInput(COLLECTION_NAMES[n]), order)
            IN r.err = NoError =>
                   \A i, j \in 1 .. Len(r.groups) :
                       i < j =>
                           \A x \in Range(r.groups[i]), y \in Range(r.groups[j]) :
                               Started(y) => task[x] = "done"

\* C9: once validate_input_state has answered false, run() has failed with that
\* error, select_callbacks was not called, no callback was invoked, and neither
\* merged output, output state nor representation exists.
C9_InvalidInputAborts ==
    ("ValidateInput" \in Range(phases) /\ ~input_state_is_valid) =>
        /\ pc = "failed"
        /\ run_error = ErrInputNotValid
        /\ "SelectCallbacks" \notin Range(phases)
        /\ \A name \in Range(COLLECTION_NAMES) : name2selected[name] = <<>>
        /\ \A c \in DOMAIN task : task[c] = "none"
        /\ merged_output_of_callbacks = "unset"
        /\ output_state = "unset"
        /\ representation = "unset"

\* C9 witness: the input state of a request with callbacks was found invalid
C9_Witness ==
    /\ "ValidateInput" \in Range(phases)
    /\ ~input_state_is_valid
    /\ pc = "failed"
    /\ DOMAIN task # {}

\* C10: the phases entered are always an initial part of the fixed order, a phase
\* is entered only after the one before it succeeded, and after
\* validate_output_state answered false run() has failed and no representation
\* was generated.
C10_PhasesInFixedOrder ==
    /\ Len(phases) <= Len(PhaseOrder)
    /\ \A i \in 1 .. Len(phases) : phases[i] = PhaseOrder[i]
    /\ pc = "done" => phases = PhaseOrder
    /\ "SelectCallbacks" \in Range(phases) => input_state_is_valid
    /\ "Invoke" \notin Range(phases) => \A c \in DOMAIN task : task[c] = "none"
    /\ "Merge" \in Range(phases) => \A c \in DOMAIN task : task[c] = "done"
    /\ "BuildOutput" \in Range(phases) => merged_output_of_callbacks = "set"
    /\ "Representation" \in Range(phases) => output_state_is_valid
    /\ ("ValidateOutput" \in Range(phases) /\ ~output_state_is_valid) =>
           /\ pc = "failed"
           /\ run_error = ErrOutputNotValid
           /\ "Representation" \notin Range(phases)
           /\ representation = "unset"

\* C10 witness: validate_output_state answered false after callbacks had run
C10_Witness ==
    /\ "ValidateOutput" \in Range(phases)
    /\ ~output_state_is_valid
    /\ pc = "failed"
    /\ \E c \in DOMAIN task : task[c] = "done"

\* C11: once a callback has raised, run() is still collecting the other callbacks
\* or has failed with the callback's error: nothing was stored or merged,
\* merged_output_of_callbacks is not set, build_output_state and
\* generate_representation were not called, and nothing is returned.
C11_CallbackFailureAborts ==
    (\E c \in DOMAIN task : task[c] = "failed") =>
        /\ pc \in {"gather", "failed"}
        /\ pc = "failed" => run_error = ErrCallbackRaised
        /\ "Merge" \notin Range(phases)
        /\ \A name \in Range(COLLECTION_NAMES) : tree_state[name] = <<>>
        /\ merged_output_of_callbacks = "unset"
        /\ output_state = "unset"
        /\ output_state_is_valid = FALSE
        /\ representation = "unset"

\* C11 witness: run() failed on a callback that raised while another had returned
C11_Witness ==
    /\ pc = "failed"
    /\ run_error = ErrCallbackRaised
    /\ \E c \in DOMAIN task : task[c] = "failed"
    /\ \E c \in DOMAIN task : task[c] = "done"

\* C19: a pipeline constructed without a representation generator is not failed
\* by that absence, at construction or in any phase, and when run() has ended
\* its representation is None.
C19_NoGeneratorRuns ==
    ~rep_generator =>
        /\ run_error # ErrAttributeError
        /\ pc = "done" => representation = "None"

\* C20: after the merge step the TreeState of every collection holds, at the path
\* of each callback selected for that collection, the value that callback
\* returned, and nothing else, whatever the order the callbacks returned in.
C20_ResultsStoredAtOwnPath ==
    "Merge" \in Range(phases) =>
        \A name \in Range(COLLECTION_NAMES) :
            /\ DOMAIN tree_state[name] =
                   { PathOf(c) : c \in Range(name2selected[name]) }
            /\ \A c \in Range(name2selected[name]) :
                   tree_state[name][PathOf(c)] = ResultOf(c)

\* C20 witness: two callbacks of one collection returned in the order opposite
\* to their selection, and their results were stored
C20_Witness ==
    /\ "Merge" \in Range(phases)
    /\ \E name \in Range(COLLECTION_NAMES) :
          /\ Len(name2selected[name]) = 2
          /\ completed = <<name2selected[name][2], name2selected[name][1]>>

\* a callback registered with run_after set to an empty collection
EmptyRunAfter(c) == Plain(c) /\ OptionsOf(c).run_after = RunAfterIter({})

\* C14: a callback whose run_after is an empty collection is scheduled as a
\* callback without run_after is: in a returned schedule it stands in the first
\* group when no callback is before_all, and in a group after the first when
\* one is.
C14_EmptyRunAfterIsStart ==
    Returned =>
        \A c \in InputCallbacks :
            EmptyRunAfter(c) =>
                IF \E r \in InputCallbacks : OptionsOf(r).before_all
                THEN \E i \in 2 .. Len(parallel_groups) : InGroup(c, i)
                ELSE parallel_groups # <<>> /\ InGroup(c, 1)

\* the callbacks placed in the groups before group i
PlacedBefore(i) == UNION { Range(parallel_groups[j]) : j \in 1 .. (i - 1) }

\* C15: every group of a returned schedule is maximal: a callback not placed
\* before group i whose declared parents are all placed before group i stands
\* in group i, whatever order the sets of the run iterate in.
C15_GroupsAreMaximal ==
    Returned =>
        \A i \in 1 .. Len(parallel_groups) :
            \A c \in InputCallbacks :
                (c \notin PlacedBefore(i) /\ DeclaredParents(c) \subseteq PlacedBefore(i))
                    => InGroup(c, i)

\* the paths of the triples _select_callbacks returned
Selected == { select_ret[i].attr : i \in 1 .. Len(select_ret) }

\* C13: a node is selected if and only if a callback is registered at it and
\* its state is present or it is the root: a node other than the root whose
\* state is absent is never selected, also when the state of the root is absent.
C13_SelectedIffCallbackAndStateOrRoot ==
    select_pc = "returned" =>
        \A attr \in root_attr :
            attr \in Selected <=>
                (attr \in query /\ (attr \in root_state \/ attr = <<>>))

\* the place of a child name in the declaration order
NameIndex(name) == CHOOSE i \in 1 .. Len(CHILD_NAMES) : CHILD_NAMES[i] = name

\* C16: the sequence _select_callbacks returns is in breadth-first order: a
\* selected node stands before every selected node of greater depth, selected
\* children of one parent stand in declaration order, no node stands in it
\* twice, and only nodes of the schema stand in it.
C16_SelectionInBreadthFirstOrder ==
    select_pc = "returned" =>
        /\ Selected \subseteq root_attr
        /\ \A i, j \in 1 .. Len(select_ret) :
              LET p == select_ret[i].attr
                  q == select_ret[j].attr
              IN /\ i # j => p # q
                 /\ Len(p) < Len(q) => i < j
                 /\ (/\ p # <<>> /\ q # <<>>
                     /\ Front(p) = Front(q)
                     /\ NameIndex(p[Len(p)]) < NameIndex(q[Len(q)])) => i < j

\* C16 witness: a grandchild and, under another child, a later sibling of its
\* parent were both selected, and so were two children of one parent
C16_Witness ==
    /\ select_pc = "returned"
    /\ {<<"a">>, <<"b">>, <<"a", "a">>} \subseteq Selected

\* what following the names of a path from a value reaches
PyMissing == [type |-> "missing"]
RECURSIVE Follow(_, _)
Follow(v, path) ==
    IF path = <<>> THEN v
    ELSE IF IsDict(v) /\ Head(path) \in DOMAIN v.items
         THEN Follow(v.items[Head(path)], Tail(path))
         ELSE PyMissing

\* the nested mapping that holds each result at the end of its path and
\* nothing else
RECURSIVE Nested(_, _)
Nested(tree, path) ==
    IF path \in DOMAIN tree THEN tree[path]
    ELSE PyDict([name \in ChildrenOf(tree, path) |-> Nested(tree, Append(path, name))])

\* results are stored at leaves only: at no path that leads on to another
LeafOnly(tree) == \A path \in DOMAIN tree : ChildrenOf(tree, path) = {}

\* C12: when results are stored at leaf paths only, the merge returns the nested
\* mapping in which the names of each path lead to exactly the result stored
\* at that path, and which has no other entries; without results it returns
\* the empty mapping.
C12_MergeRoundTrip ==
    (merge_pc = "returned" /\ LeafOnly(output_of_callbacks)
        /\ <<>> \notin DOMAIN output_of_callbacks) =>
        merge_ret = Nested(output_of_callbacks, <<>>)

\* C17: a node without children yields the value stored at it whenever a value
\* (other than None) was stored, whatever the value: 0 and the empty mapping
\* too.
C17_LeafYieldsStoredValue ==
    merge_pc = "returned" =>
        \A path \in DOMAIN output_of_callbacks :
            (/\ ChildrenOf(output_of_callbacks, path) = {}
             /\ output_of_callbacks[path] # PyNone) =>
                Follow(merge_ret, path) = output_of_callbacks[path]

\* the nodes of a TreeState: the prefixes of the touched paths
NodesOf(tree) ==
    UNION { { SubSeq(path, 1, k) : k \in 0 .. Len(path) } : path \in DOMAIN tree }

\* C18: a node with children yields a mapping that has an entry for every child;
\* when the raw value stored at the node is a mapping, its entries for names
\* that are not children are kept in it, also when the raw mapping of the
\* parent has an entry for the node.
C18_NodeWithChildrenYieldsMapping ==
    merge_pc = "returned" =>
        \A path \in NodesOf(output_of_callbacks) :
            LET children == ChildrenOf(output_of_callbacks, path)
                raw == ValueOf(output_of_callbacks, path)
                out == Follow(merge_ret, path)
            IN children # {} =>
                  /\ IsDict(out)
                  /\ children \subseteq DOMAIN out.items
                  /\ IsDict(raw) =>
                        \A name \in (DOMAIN raw.items) \ children :
                            /\ name \in DOMAIN out.items
                            /\ out.items[name] = raw.items[name]

\* C21: once the topology sort has raised no error, the grouping loop ends, by
\* the return or by an exception of its own, and every group it has emitted
\* holds at least one callback.
C21_GroupingLoopTerminates ==
    /\ [](sched_pc \in {"grouping", "returned"} =>
            \A i \in 1 .. Len(parallel_groups) : parallel_groups[i] # <<>>)
    /\ (sched_pc = "grouping") ~> (sched_pc \in {"returned", "raised"})

\* C21 witness: a round is over and the loop goes on: the callback now at the
\* front of a sequence has parents, and waited for one of them in that round
C21_Witness ==
    /\ sched_pc = "grouping"
    /\ parallel_groups # <<>>
    /\ loop_groups # <<>>
    /\ \E i \in 1 .. Len(loop_groups) :
          LoopParents[Head(loop_groups[i])] \cap Range(parallel_groups[Len(parallel_groups)]) # {}

====
